---- MODULE Spec2Model ----
(***************************************************************************)
(* Model of the `Associated` derive macro (associated-derive/src/lib.rs).  *)
(*                                                                         *)
(* One invocation of `associated_derive` is modelled: the input is the     *)
(* token stream handed to the macro (either not a DeriveInput, or a        *)
(* DeriveInput with attributes, an identifier, generics and a struct,      *)
(* union or enum body), the program counter `pc` is the position inside    *)
(* the function, and `output` is the token stream it returns.  Token       *)
(* streams are sequences of tokens (strings); the returned stream is a     *)
(* sequence of top-level items (a `compile_error!` item or an `impl`       *)
(* block).  The back-quotes of the messages are written as '.            *)
(***************************************************************************)
EXTENDS Integers, Sequences, FiniteSets, TLC

VARIABLES input, pc, associated, args, idx, associated_values, match_block,
          output

vars == <<input, pc, associated, args, idx, associated_values, match_block,
          output>>

(***************************************************************************)
(* Bounds of the model.                                                    *)
(***************************************************************************)
\* the greatest number of variants of an enum
MaxVariants == 2
\* the greatest number of attributes on a declaration or on a variant
MaxAttrs == 2
\* the greatest number of attributes in one declaration, its variants' included
MaxTotalAttrs == 3

(***************************************************************************)
(* Option and Result values.                                               *)
(***************************************************************************)
None == [some |-> FALSE]
Some(x) == [some |-> TRUE, v |-> x]

SeqsUpTo(S, n) == UNION {[1..k -> S] : k \in 0..n}

(***************************************************************************)
(* syn: the two small grammars the macro delegates to.  A type or an       *)
(* expression is `&`* followed by one atom; the parser builds a tree and   *)
(* ToTokens prints a tree back to tokens.                                  *)
(***************************************************************************)
ExprAtoms == {"1", "X"}
TypeAtoms == {"u8", "str"}
Idents == {"Type", "type", "u8", "str", "X"}

\* ParseResult::Err(ParseError::new(span, msg))
ParseErr(span, msg) == [ok |-> FALSE, span |-> span, message |-> msg]

RECURSIVE ParsePrefixed(_, _, _)
\* parses `&`* atom from position i; on success `next` is the position after it
ParsePrefixed(ts, i, atoms) ==
    IF i > Len(ts)
    THEN ParseErr(<<"end of input">>, <<"unexpected end of input">>)
    ELSE IF ts[i] = "&"
    THEN LET r == ParsePrefixed(ts, i + 1, atoms)
         IN  IF r.ok
             THEN [ok |-> TRUE, next |-> r.next,
                   node |-> [kind |-> "Reference", of |-> <<r.node>>]]
             ELSE r
    ELSE IF ts[i] \in atoms
    THEN [ok |-> TRUE, next |-> i + 1,
          node |-> [kind |-> "Atom", of |-> <<ts[i]>>]]
    ELSE ParseErr(<<"token">>, <<"unexpected token">>)

RECURSIVE ToTokens(_)
\* quote's interpolation of a parsed node: the tokens it was parsed from
ToTokens(node) ==
    IF node.kind = "Reference"
    THEN <<"&">> \o ToTokens(node.of[1])
    ELSE node.of

\* Attribute::parse_args::<Expr>: an expression, then the end of the input
ParseArgsExpr(tokens) ==
    LET r == ParsePrefixed(tokens, 1, ExprAtoms)
    IN  IF ~r.ok THEN r
        ELSE IF r.next <= Len(tokens)
        THEN ParseErr(<<"token">>, <<"unexpected token">>)
        ELSE [ok |-> TRUE, expr |-> r.node]

\* syn::Binding::parse: ident `=` type
BindingParse(tokens) ==
    IF Len(tokens) < 1 \/ tokens[1] \notin Idents
    THEN ParseErr(<<"token">>, <<"expected identifier">>)
    ELSE IF Len(tokens) < 2 \/ tokens[2] # "="
    THEN ParseErr(<<"token">>, <<"expected '='">>)
    ELSE LET r == ParsePrefixed(tokens, 3, TypeAtoms)
         IN  IF ~r.ok THEN r
             ELSE [ok |-> TRUE, next |-> r.next,
                   b |-> [ident |-> tokens[1], ty |-> r.node]]

\* Path::get_ident: the identifier of a one-segment path
GetIdent(path) == IF Len(path) = 1 THEN Some(path[1]) ELSE None

\* ParseError::to_compile_error: one `compile_error!` item
ToCompileError(span, msg) ==
    <<[item |-> "compile_error", span |-> span, message |-> msg]>>

\* the position an iterator's search stops at: the least of the positions
\* S that satisfy it, 0 when there is none
FirstIndex(S) ==
    IF S = {} THEN 0 ELSE CHOOSE i \in S : \A j \in S : i <= j

(***************************************************************************)
(* The macro's own functions.                                              *)
(***************************************************************************)
\* an Args::parse that compares the key without regard to case
ArgsParseAnyCase(tokens) ==
    LET r == BindingParse(tokens)
    IN  IF ~r.ok THEN r
        ELSE IF r.b.ident \in {"Type", "type"}
        THEN [ok |-> TRUE, next |-> r.next, args |-> [assoc_type |-> r.b.ty]]
        ELSE ParseErr(<<"ident", r.b.ident>>, <<"Expected 'Type'">>)

\* <Args as Parse>::parse
ArgsParse(tokens) ==
    LET r == BindingParse(tokens)
    IN  IF ~r.ok THEN r
        ELSE IF r.b.ident = "Type"
        THEN [ok |-> TRUE, next |-> r.next, args |-> [assoc_type |-> r.b.ty]]
        ELSE ParseErr(<<"ident", r.b.ident>>, <<"Expected 'Type'">>)

\* associated.parse_args::<Args>(): Args::parse, then the end of the input
ParseArgsArgs(tokens) ==
    LET r == ArgsParse(tokens)
    IN  IF ~r.ok THEN r
        ELSE IF r.next <= Len(tokens)
        THEN ParseErr(<<"token">>, <<"unexpected token">>)
        ELSE [ok |-> TRUE, args |-> r.args]

\* the closure of attrs.iter().find(..) in associated_derive
IsAssociated(attr) ==
    LET i == GetIdent(attr.path)
    IN  IF i.some THEN i.v = "associated" ELSE FALSE

\* attrs.iter().find(..): the first `associated` attribute
FindAssociated(attrs) ==
    LET k == FirstIndex({i \in 1..Len(attrs) : IsAssociated(attrs[i])})
    IN  IF k = 0 THEN None ELSE Some(attrs[k])

\* a closure that takes `assoc` for the constant kind and `assoc_const` for
\* the static kind
AssocOfSwapped(attr) ==
    LET i == GetIdent(attr.path)
    IN  IF i.some
        THEN IF i.v = "assoc"
             THEN Some([kind |-> "Constant", attr |-> attr])
             ELSE IF i.v = "assoc_const"
             THEN Some([kind |-> "Static", attr |-> attr])
             ELSE None
        ELSE None

\* the closure of v.attrs.iter().find_map(..) in parse_associated_values
AssocOf(attr) ==
    LET i == GetIdent(attr.path)
    IN  IF i.some
        THEN IF i.v = "assoc"
             THEN Some([kind |-> "Static", attr |-> attr])
             ELSE IF i.v = "assoc_const"
             THEN Some([kind |-> "Constant", attr |-> attr])
             ELSE None
        ELSE None

IsAssoc(attr) == AssocOf(attr).some

\* a find_map that keeps the last attribute the closure maps to Some
FindAssocLast(attrs) ==
    LET S == {i \in 1..Len(attrs) : IsAssoc(attrs[i])}
    IN  IF S = {} THEN None
        ELSE AssocOf(attrs[CHOOSE i \in S : \A j \in S : j <= i])

\* v.attrs.iter().find_map(..): the first attribute the closure maps to Some
FindAssoc(attrs) ==
    LET k == FirstIndex({i \in 1..Len(attrs) : IsAssoc(attrs[i])})
    IN  IF k = 0 THEN None ELSE AssocOf(attrs[k])

\* a message that names the variant where the enum belongs, and the enum
\* where the variant belongs
MissingMessageSwapped(enum_ident, variant_ident) ==
    <<"Cannot derive 'Associated' for '", variant_ident,
      "': Missing 'assoc' or 'assoc_const' attribute on variant '",
      enum_ident, "'">>

\* the message of the missing-attribute error, as format! builds it
MissingMessage(enum_ident, variant_ident) ==
    <<"Cannot derive 'Associated' for '", enum_ident,
      "': Missing 'assoc' or 'assoc_const' attribute on variant '",
      variant_ident, "'">>

\* the body of the loop of parse_associated_values for variant v: the tuple
\* it pushes, or the token stream it returns as the error
VariantStep(v, enum_ident) ==
    LET a == FindAssoc(v.attrs)
    IN  IF a.some
        THEN LET e == ParseArgsExpr(a.v.attr.tokens)
             IN  IF e.ok
                 THEN [ok |-> TRUE,
                       value |-> [ident |-> v.ident, fields |-> v.fields,
                                  expr |-> e.expr, kind |-> a.v.kind]]
                 ELSE [ok |-> FALSE,
                       err |-> ToCompileError(e.span, e.message)]
        ELSE [ok |-> FALSE,
              err |-> ToCompileError(<<"variant", v.ident>>,
                                     MissingMessage(enum_ident, v.ident))]

RECURSIVE ParseFrom(_, _, _, _)
\* the loop of parse_associated_values from variant i on, with the values
\* pushed so far
ParseFrom(variants, enum_ident, i, pushed) ==
    IF i > Len(variants)
    THEN [ok |-> TRUE, values |-> pushed]
    ELSE LET s == VariantStep(variants[i], enum_ident)
         IN  IF s.ok
             THEN ParseFrom(variants, enum_ident, i + 1, Append(pushed, s.value))
             ELSE [ok |-> FALSE, err |-> s.err]

\* parse_associated_values
ParseAssociatedValues(variants, enum_ident) ==
    ParseFrom(variants, enum_ident, 1, <<>>)

\* a choice of glyph with the two kinds of fields exchanged
PatternSwapped(fields) ==
    CASE fields = "Named" -> <<"(", "..", ")">>
      [] fields = "Unnamed" -> <<"{", "..", "}">>
      [] fields = "Unit" -> <<>>

\* the pattern glyph generate_match_body chooses for a variant's fields
Pattern(fields) ==
    CASE fields = "Named" -> <<"{", "..", "}">>
      [] fields = "Unnamed" -> <<"(", "..", ")">>
      [] fields = "Unit" -> <<>>

\* the result of an arm: the tokens after `=>`
ArmBody(associated_type, expr, kind) ==
    CASE kind = "Constant" ->
           <<"{", "const", "ASSOCIATED", ":">> \o ToTokens(associated_type)
             \o <<"=">> \o ToTokens(expr) \o <<";", "&", "ASSOCIATED", "}">>
      [] kind = "Static" -> ToTokens(expr)

\* the closure of generate_match_body: one arm
GenerateArm(enum_ident, associated_type, av) ==
    [enum_ident |-> enum_ident, variant_ident |-> av.ident,
     pattern |-> Pattern(av.fields),
     body |-> ArmBody(associated_type, av.expr, av.kind)]

\* a generate_match_body that skips the first of the associated_variants
GenerateMatchBodySkipFirst(enum_ident, associated_type, associated_variants) ==
    [i \in 1..(Len(associated_variants) - 1) |->
        GenerateArm(enum_ident, associated_type, associated_variants[i + 1])]

\* generate_match_body: the arms, in the order of associated_variants
GenerateMatchBody(enum_ident, associated_type, associated_variants) ==
    [i \in 1..Len(associated_variants) |->
        GenerateArm(enum_ident, associated_type, associated_variants[i])]

\* the impl block associated_derive quotes
ImplBlock(ident, generics, associated_type, arms) ==
    <<[item |-> "impl", impl_generics |-> generics.params,
       trait |-> <<"associated", "Associated">>, self_ty |-> ident,
       ty_generics |-> generics.params,
       where_clause |-> generics.where_clause,
       AssociatedType |-> ToTokens(associated_type),
       match_arms |-> arms]>>

\* associated_derive as a function of its input
AssociatedDerive(in) ==
    IF ~in.parsed
    THEN ToCompileError(<<"input">>, <<"syn: not a derive input">>)
    ELSE LET found == FindAssociated(in.attrs)
    IN  IF ~found.some
        THEN ToCompileError(<<"ident">>, <<"Missing 'associated' attribute">>)
        ELSE LET a == ParseArgsArgs(found.v.tokens)
    IN  IF ~a.ok
        THEN ToCompileError(a.span, a.message)
        ELSE IF in.data.kind = "Struct"
        THEN ToCompileError(<<"struct_token">>,
                            <<"Cannot derive 'Associated' for structs">>)
        ELSE IF in.data.kind = "Union"
        THEN ToCompileError(<<"union_token">>,
                            <<"Cannot derive 'Associated' for unions">>)
        ELSE LET r == ParseAssociatedValues(in.data.variants, in.ident)
    IN  IF ~r.ok
        THEN r.err
        ELSE ImplBlock(in.ident, in.generics, a.args.assoc_type,
                       GenerateMatchBody(in.ident, a.args.assoc_type, r.values))

(***************************************************************************)
(* The inputs of the model.                                                *)
(***************************************************************************)
\* payloads of an `associated` attribute: two bindings of the key Type, a
\* binding of another key, and tokens that are no binding
TypePayloads ==
    {<<"Type", "=", "u8">>, <<"Type", "=", "&", "str">>,
     <<"type", "=", "u8">>, <<"u8">>}

\* payloads of an `assoc` or `assoc_const` attribute: two expressions and
\* tokens that are no expression
ExprPayloads == {<<"1">>, <<"&", "X">>, <<"&">>}

DeclAttrs ==
    {[path |-> <<"associated">>, tokens |-> t] : t \in TypePayloads}
      \cup {[path |-> <<"repr">>, tokens |-> <<"u8">>]}

VariantAttrs ==
    {[path |-> <<k>>, tokens |-> t] : k \in {"assoc", "assoc_const"},
                                      t \in ExprPayloads}
      \cup {[path |-> <<"doc">>, tokens |-> <<"1">>]}

FieldShapes == {"Named", "Unnamed", "Unit"}

VariantIdents == <<"Alpha", "Bravo", "Charlie", "Delta">>

Min(a, b) == IF a <= b THEN a ELSE b

RECURSIVE Sum(_, _)
\* lens[1] + .. + lens[n]
Sum(lens, n) == IF n = 0 THEN 0 ELSE lens[n] + Sum(lens, n - 1)

\* the variants of an enum: variant i is named VariantIdents[i], has the
\* fields f[i] and carries the next lens[i] attributes of flat
VariantsOf(lens, flat, f) ==
    [i \in 1..Len(lens) |->
        [ident |-> VariantIdents[i], fields |-> f[i],
         attrs |-> SubSeq(flat, Sum(lens, i - 1) + 1, Sum(lens, i))]]

\* a parsed DeriveInput
DeriveInput(attrs, data) ==
    [parsed |-> TRUE, attrs |-> attrs, ident |-> "Phonetic",
     generics |-> [params |-> <<"T">>, where_clause |-> <<>>],
     data |-> data]

\* in is a struct or a union carrying the attributes at
IsStructOrUnion(in, at) ==
    \E k \in {"Struct", "Union"} :
        in = DeriveInput(at, [kind |-> k, variants |-> <<>>])

\* in is an enum carrying the attributes at, of at most MaxVariants variants
\* with at most MaxAttrs attributes each and at most budget altogether
IsEnum(in, at, budget) ==
    \E n \in 0..MaxVariants :
      \E lens \in [1..n -> 0..MaxAttrs] :
        /\ Sum(lens, n) <= budget
        /\ \E flat \in [1..Sum(lens, n) -> VariantAttrs] :
             \E f \in [1..n -> FieldShapes] :
               in = DeriveInput(at, [kind |-> "Enum",
                                     variants |-> VariantsOf(lens, flat, f)])

\* in is an input of the model: tokens that are no DeriveInput, or a
\* declaration within the bounds
IsInput(in) ==
    \/ in = [parsed |-> FALSE]
    \/ \E k \in 0..Min(MaxAttrs, MaxTotalAttrs) :
         \E at \in [1..k -> DeclAttrs] :
           \/ IsStructOrUnion(in, at)
           \/ IsEnum(in, at, MaxTotalAttrs - k)

(***************************************************************************)
(* One invocation of associated_derive, step by step.                      *)
(***************************************************************************)
NoAttr == [path |-> <<>>, tokens |-> <<>>]
NoArgs == [assoc_type |-> [kind |-> "Atom", of |-> <<>>]]

Init ==
    /\ IsInput(input)
    /\ pc = "parse_macro_input"
    /\ associated = NoAttr
    /\ args = NoArgs
    /\ idx = 0
    /\ associated_values = <<>>
    /\ match_block = <<>>
    /\ output = <<>>

\* return a token stream
Return(tokens) ==
    /\ pc' = "returned"
    /\ output' = tokens

\* parse_macro_input!(input): the input is parsed as a DeriveInput
ParseMacroInput ==
    /\ pc = "parse_macro_input"
    /\ IF input.parsed
       THEN /\ pc' = "find_associated"
            /\ UNCHANGED output
       ELSE Return(ToCompileError(<<"input">>, <<"syn: not a derive input">>))
    /\ UNCHANGED <<input, associated, args, idx, associated_values, match_block>>

\* a search for the attribute that first rejects structs and unions
FindAssociatedKindFirst ==
    /\ pc = "find_associated"
    /\ LET found == FindAssociated(input.attrs)
       IN  IF input.data.kind = "Struct"
           THEN /\ Return(ToCompileError(<<"struct_token">>,
                              <<"Cannot derive 'Associated' for structs">>))
                /\ UNCHANGED associated
           ELSE IF input.data.kind = "Union"
           THEN /\ Return(ToCompileError(<<"union_token">>,
                              <<"Cannot derive 'Associated' for unions">>))
                /\ UNCHANGED associated
           ELSE IF found.some
           THEN /\ associated' = found.v
                /\ pc' = "parse_args"
                /\ UNCHANGED output
           ELSE /\ Return(ToCompileError(<<"ident">>,
                                         <<"Missing 'associated' attribute">>))
                /\ UNCHANGED associated
    /\ UNCHANGED <<input, args, idx, associated_values, match_block>>

\* let associated = match attrs.iter().find(..)
FindAssociatedStep ==
    /\ pc = "find_associated"
    /\ LET found == FindAssociated(input.attrs)
       IN  IF found.some
           THEN /\ associated' = found.v
                /\ pc' = "parse_args"
                /\ UNCHANGED output
           ELSE /\ Return(ToCompileError(<<"ident">>,
                                         <<"Missing 'associated' attribute">>))
                /\ UNCHANGED associated
    /\ UNCHANGED <<input, args, idx, associated_values, match_block>>

\* let args = match associated.parse_args::<Args>()
ParseArgsStep ==
    /\ pc = "parse_args"
    /\ LET a == ParseArgsArgs(associated.tokens)
       IN  IF a.ok
           THEN /\ args' = a.args
                /\ pc' = "match_data"
                /\ UNCHANGED output
           ELSE /\ Return(ToCompileError(a.span, a.message))
                /\ UNCHANGED args
    /\ UNCHANGED <<input, associated, idx, associated_values, match_block>>

\* a match on data that rejects structs only
MatchDataUnionAsEnum ==
    /\ pc = "match_data"
    /\ IF input.data.kind = "Struct"
       THEN /\ Return(ToCompileError(<<"struct_token">>,
                          <<"Cannot derive 'Associated' for structs">>))
            /\ UNCHANGED idx
       ELSE /\ pc' = "parse_associated_values"
            /\ idx' = 1
            /\ UNCHANGED output
    /\ UNCHANGED <<input, associated, args, associated_values, match_block>>

\* let variants = match data
MatchData ==
    /\ pc = "match_data"
    /\ CASE input.data.kind = "Struct" ->
              /\ Return(ToCompileError(<<"struct_token">>,
                            <<"Cannot derive 'Associated' for structs">>))
              /\ UNCHANGED idx
         [] input.data.kind = "Union" ->
              /\ Return(ToCompileError(<<"union_token">>,
                            <<"Cannot derive 'Associated' for unions">>))
              /\ UNCHANGED idx
         [] input.data.kind = "Enum" ->
              /\ pc' = "parse_associated_values"
              /\ idx' = 1
              /\ UNCHANGED output
    /\ UNCHANGED <<input, associated, args, associated_values, match_block>>

\* an iteration that, on an error, returns the error followed by an impl
\* block of the arms of the variants parsed so far
ParseVariantPartial ==
    /\ pc = "parse_associated_values"
    /\ idx <= Len(input.data.variants)
    /\ LET s == VariantStep(input.data.variants[idx], input.ident)
       IN  IF s.ok
           THEN /\ associated_values' = Append(associated_values, s.value)
                /\ idx' = idx + 1
                /\ UNCHANGED <<pc, output>>
           ELSE /\ Return(s.err \o ImplBlock(input.ident, input.generics,
                              args.assoc_type,
                              GenerateMatchBody(input.ident, args.assoc_type,
                                                associated_values)))
                /\ UNCHANGED <<idx, associated_values>>
    /\ UNCHANGED <<input, associated, args, match_block>>

\* one iteration of the loop of parse_associated_values
ParseVariant ==
    /\ pc = "parse_associated_values"
    /\ idx <= Len(input.data.variants)
    /\ LET s == VariantStep(input.data.variants[idx], input.ident)
       IN  IF s.ok
           THEN /\ associated_values' = Append(associated_values, s.value)
                /\ idx' = idx + 1
                /\ UNCHANGED <<pc, output>>
           ELSE /\ Return(s.err)
                /\ UNCHANGED <<idx, associated_values>>
    /\ UNCHANGED <<input, associated, args, match_block>>

\* a loop that is over one variant early
ParseAssociatedValuesOkEarly ==
    /\ pc = "parse_associated_values"
    /\ idx >= Len(input.data.variants)
    /\ pc' = "generate_match_body"
    /\ UNCHANGED <<input, associated, args, idx, associated_values,
                   match_block, output>>

\* the loop is over: Ok(associated_values)
ParseAssociatedValuesOk ==
    /\ pc = "parse_associated_values"
    /\ idx > Len(input.data.variants)
    /\ pc' = "generate_match_body"
    /\ UNCHANGED <<input, associated, args, idx, associated_values,
                   match_block, output>>

\* let match_block = generate_match_body(..)
GenerateMatchBodyStep ==
    /\ pc = "generate_match_body"
    /\ match_block' = GenerateMatchBody(input.ident, args.assoc_type,
                                        associated_values)
    /\ pc' = "impl_block"
    /\ UNCHANGED <<input, associated, args, idx, associated_values, output>>

\* let impl_block = quote! {..}; impl_block.into()
ImplBlockStep ==
    /\ pc = "impl_block"
    /\ Return(ImplBlock(input.ident, input.generics, args.assoc_type,
                        match_block))
    /\ UNCHANGED <<input, associated, args, idx, associated_values,
                   match_block>>

Next ==
    \/ ParseMacroInput
    \/ FindAssociatedStep
    \/ ParseArgsStep
    \/ MatchData
    \/ ParseVariant
    \/ ParseAssociatedValuesOk
    \/ GenerateMatchBodyStep
    \/ ImplBlockStep

Spec == Init /\ [][Next]_vars

\* the steps compute what the function computes
StepsAgree == pc = "returned" => output = AssociatedDerive(input)

(***************************************************************************)
(* Vocabulary of the properties, stated on the declaration itself.         *)
(***************************************************************************)
Returned == pc = "returned"

\* the token stream is one compile_error item
IsDiagnostic(out) == Len(out) = 1 /\ out[1].item = "compile_error"

\* the token stream is one impl block
IsImpl(out) == Len(out) = 1 /\ out[1].item = "impl"

\* the token stream is one compile_error item with the message msg
IsDiagnosticOf(out, msg) == IsDiagnostic(out) /\ out[1].message = msg

\* the messages the macro words itself
OwnMessages ==
    {<<"Missing 'associated' attribute">>, <<"Expected 'Type'">>,
     <<"Cannot derive 'Associated' for structs">>,
     <<"Cannot derive 'Associated' for unions">>}
      \cup {MissingMessage("Phonetic", VariantIdents[i]) : i \in 1..4}

\* a diagnostic of the external parser, passed on unchanged
IsParserDiagnostic(out) ==
    IsDiagnostic(out) /\ out[1].message \notin OwnMessages

\* the token sequences that are expressions, and those that are types
WellFormedExprs == {<<"1">>, <<"X">>, <<"&", "1">>, <<"&", "X">>}
WellFormedTypes == {<<"u8">>, <<"str">>, <<"&", "u8">>, <<"&", "str">>}

\* the positions of the `associated` annotations of a declaration
TypeDirectives(in) ==
    {i \in 1..Len(in.attrs) : in.attrs[i].path = <<"associated">>}

HasTypeDirective(in) == TypeDirectives(in) # {}

\* the payload of the first `associated` annotation
TypeDirective(in) ==
    in.attrs[CHOOSE i \in TypeDirectives(in) :
                \A j \in TypeDirectives(in) : i <= j].tokens

\* the payload is a binding `key = type`
IsBinding(tokens) ==
    /\ Len(tokens) >= 3
    /\ tokens[2] = "="
    /\ SubSeq(tokens, 3, Len(tokens)) \in WellFormedTypes

\* the declaration has a well-formed type directive
ValidTypeDirective(in) ==
    /\ HasTypeDirective(in)
    /\ IsBinding(TypeDirective(in))
    /\ TypeDirective(in)[1] = "Type"

\* the type a well-formed type directive declares
DeclaredType(in) ==
    SubSeq(TypeDirective(in), 3, Len(TypeDirective(in)))

\* the annotation is one of the two per-variant directives
Recognized(attr) == attr.path \in {<<"assoc">>, <<"assoc_const">>}

Directives(v) == {i \in 1..Len(v.attrs) : Recognized(v.attrs[i])}

HasDirective(v) == Directives(v) # {}

\* the position of the first recognized directive of a variant
WinningIndex(v) ==
    CHOOSE i \in Directives(v) : \A j \in Directives(v) : i <= j

\* the first recognized directive of a variant
Winning(v) == v.attrs[WinningIndex(v)]

\* the variant resolves: its first recognized directive is well formed
Resolves(v) == HasDirective(v) /\ Winning(v).tokens \in WellFormedExprs

IsEnumInput(in) == in.parsed /\ in.data.kind = "Enum"

\* a valid declaration: an enum with a well-formed type directive whose
\* variants all resolve
ValidDeclaration(in) ==
    /\ IsEnumInput(in)
    /\ ValidTypeDirective(in)
    /\ \A i \in 1..Len(in.data.variants) : Resolves(in.data.variants[i])

\* the arms of a returned impl block
Arms == output[1].match_arms

(***************************************************************************)
(* The properties.                                                         *)
(***************************************************************************)
\* C1 (exhaustiveness): for every valid declaration with N variants, N >= 0,
\* the macro returns an impl block whose dispatch has exactly N arms, arm i
\* naming the enum and variant i of the declaration, in the declaration's
\* order and with nothing after them; for N = 0 it is an impl block with an
\* empty dispatch, not a diagnostic.  A declaration is valid when it is an
\* enum, its first `associated` annotation is a well-formed `Type = T`, and
\* the first recognized directive of every variant is well formed.
C1_Exhaustiveness ==
    (Returned /\ ValidDeclaration(input)) =>
        /\ IsImpl(output)
        /\ Len(Arms) = Len(input.data.variants)
        /\ \A i \in 1..Len(input.data.variants) :
             /\ Arms[i].enum_ident = input.ident
             /\ Arms[i].variant_ident = input.data.variants[i].ident

\* a valid declaration of two variants has been expanded
C1_Witness ==
    /\ Returned
    /\ ValidDeclaration(input)
    /\ Len(input.data.variants) = 2
    /\ IsImpl(output)

\* C2 as claimed: every struct or union input yields the unsupported-kind
\* diagnostic, whatever annotations the declaration carries.
C2_Original ==
    (Returned /\ input.parsed) =>
        /\ input.data.kind = "Struct" =>
             IsDiagnosticOf(output, <<"Cannot derive 'Associated' for structs">>)
        /\ input.data.kind = "Union" =>
             IsDiagnosticOf(output, <<"Cannot derive 'Associated' for unions">>)

\* C2 (non-enum rejection), amended: every struct or union input whose first
\* `associated` annotation is a well-formed `Type = T` yields the
\* unsupported-kind diagnostic for structs, respectively for unions; every
\* struct or union input yields one diagnostic and no impl block.
C2_NonEnumRejection ==
    (Returned /\ input.parsed /\ input.data.kind \in {"Struct", "Union"}) =>
        /\ IsDiagnostic(output)
        /\ (ValidTypeDirective(input) /\ input.data.kind = "Struct") =>
             IsDiagnosticOf(output, <<"Cannot derive 'Associated' for structs">>)
        /\ (ValidTypeDirective(input) /\ input.data.kind = "Union") =>
             IsDiagnosticOf(output, <<"Cannot derive 'Associated' for unions">>)

\* a union with a well-formed type directive after another annotation has
\* been rejected as a union
C2_Witness ==
    /\ Returned
    /\ input.parsed
    /\ input.data.kind = "Union"
    /\ Len(input.attrs) = 2
    /\ ValidTypeDirective(input)
    /\ IsDiagnosticOf(output, <<"Cannot derive 'Associated' for unions">>)

\* variant k is the first variant that does not resolve, and it carries
\* neither directive
FirstMissing(in, k) ==
    /\ ~HasDirective(in.data.variants[k])
    /\ \A j \in 1..(k - 1) : Resolves(in.data.variants[j])

\* C3 (fail-fast completeness check): in an enum with a well-formed type
\* directive, when a variant carries neither `assoc` nor `assoc_const` and
\* every variant before it resolves (so in particular when it is the one
\* defect of the declaration), the macro returns exactly one item, the
\* missing-directive diagnostic whose message names the enum and that
\* variant and whose span is that variant, and no impl block.
C3_MissingVariantDirective ==
    (Returned /\ IsEnumInput(input) /\ ValidTypeDirective(input)) =>
        \A k \in 1..Len(input.data.variants) :
            FirstMissing(input, k) =>
                output = <<[item |-> "compile_error",
                            span |-> <<"variant", input.data.variants[k].ident>>,
                            message |->
                              <<"Cannot derive 'Associated' for '", input.ident,
                                "': Missing 'assoc' or 'assoc_const' attribute on variant '",
                                input.data.variants[k].ident, "'">>]>>

\* the second of two variants carries only an unrecognized annotation, the
\* first resolves, and the macro has returned
C3_Witness ==
    /\ Returned
    /\ IsEnumInput(input)
    /\ ValidTypeDirective(input)
    /\ Len(input.data.variants) = 2
    /\ Resolves(input.data.variants[1])
    /\ Len(input.data.variants[2].attrs) = 1
    /\ ~HasDirective(input.data.variants[2])
    /\ IsDiagnostic(output)

\* the sequence s without its element j
RemoveAt(s, j) == SubSeq(s, 1, j - 1) \o SubSeq(s, j + 1, Len(s))

\* the attribute lists that differ from those of v only after its first
\* recognized directive: everything after it removed, one later annotation
\* removed, or one later annotation replaced by any other (a directive of
\* either kind, well formed or malformed, or an unrecognized annotation)
LaterEditsOf(v) ==
    LET w == WinningIndex(v)
        later == (w + 1)..Len(v.attrs)
    IN  {SubSeq(v.attrs, 1, w)}
          \cup {RemoveAt(v.attrs, j) : j \in later}
          \cup {[v.attrs EXCEPT ![j] = x] : j \in later, x \in VariantAttrs}

\* the declarations that differ from in only in later directives of a variant
LaterEdits(in) ==
    UNION {{[in EXCEPT !.data.variants[i].attrs = a] :
              a \in LaterEditsOf(in.data.variants[i])} :
           i \in {j \in 1..Len(in.data.variants) :
                    HasDirective(in.data.variants[j])}}

\* C4 (first-wins precedence): the kind and the expression the macro resolves
\* for a variant are those of the variant's first recognized directive (key
\* `assoc`: Static, key `assoc_const`: Constant; the expression prints back
\* to the directive's payload), whatever follows or precedes it; and the
\* token stream returned for a declaration is the one returned for every
\* declaration that differs from it only after the first recognized
\* directive of a variant (a later annotation changed, removed or made
\* malformed).
C4_FirstWins ==
    input.parsed =>
        /\ \A i \in 1..Len(associated_values) :
             LET w == Winning(input.data.variants[i])
             IN  /\ associated_values[i].kind =
                      (IF w.path = <<"assoc">> THEN "Static" ELSE "Constant")
                 /\ ToTokens(associated_values[i].expr) = w.tokens
        /\ Returned =>
             \A d \in LaterEdits(input) : AssociatedDerive(d) = output

\* an impl block has been returned for an enum whose first variant carries a
\* well-formed `assoc_const` followed by a malformed `assoc`
C4_Witness ==
    /\ Returned
    /\ IsImpl(output)
    /\ Len(input.data.variants) >= 1
    /\ Len(input.data.variants[1].attrs) = 2
    /\ input.data.variants[1].attrs[1] =
         [path |-> <<"assoc_const">>, tokens |-> <<"&", "X">>]
    /\ input.data.variants[1].attrs[2] =
         [path |-> <<"assoc">>, tokens |-> <<"&">>]

\* the returned impl block is complete: the header of the declaration, the
\* declared associated type and one arm for every variant
CompleteImpl ==
    /\ IsImpl(output)
    /\ DOMAIN output[1] =
         {"item", "impl_generics", "trait", "self_ty", "ty_generics",
          "where_clause", "AssociatedType", "match_arms"}
    /\ IsEnumInput(input)
    /\ output[1].self_ty = input.ident
    /\ output[1].impl_generics = input.generics.params
    /\ output[1].ty_generics = input.generics.params
    /\ output[1].where_clause = input.generics.where_clause
    /\ output[1].trait = <<"associated", "Associated">>
    /\ output[1].AssociatedType \in WellFormedTypes
    /\ Len(Arms) = Len(input.data.variants)
    /\ \A i \in 1..Len(Arms) :
         Arms[i].variant_ident = input.data.variants[i].ident

\* the returned item is a diagnostic and nothing else: a message and a span
SingleDiagnostic ==
    /\ IsDiagnostic(output)
    /\ DOMAIN output[1] = {"item", "span", "message"}

\* C5 (all-or-nothing output): nothing is emitted before the macro returns,
\* and what it returns is exactly one item, which is either a complete impl
\* block (header, associated type and one arm for every variant) or one
\* diagnostic carrying no arm and no implementation text, however many
\* things are wrong with the declaration.
C5_AllOrNothing ==
    /\ ~Returned => output = <<>>
    /\ Returned =>
         /\ Len(output) = 1
         /\ CompleteImpl \/ SingleDiagnostic

\* a declaration with three defects (no type directive, a first variant
\* without directive, a second variant with a malformed directive) has got
\* its diagnostic
C5_Witness ==
    /\ Returned
    /\ IsEnumInput(input)
    /\ ~HasTypeDirective(input)
    /\ Len(input.data.variants) = 2
    /\ ~HasDirective(input.data.variants[1])
    /\ HasDirective(input.data.variants[2])
    /\ ~Resolves(input.data.variants[2])
    /\ SingleDiagnostic

\* C6 (type directive validation): a declaration without `associated`
\* annotation fails with "Missing 'associated' attribute"; one whose first
\* `associated` annotation is a binding with a key other than the exact
\* string Type fails with "Expected 'Type'"; one whose first `associated`
\* annotation is `Type = T` fails with neither, and every impl block
\* returned for it has T, unchanged, as its associated type.
C6_TypeDirective ==
    (Returned /\ input.parsed) =>
        /\ ~HasTypeDirective(input) =>
             IsDiagnosticOf(output, <<"Missing 'associated' attribute">>)
        /\ (HasTypeDirective(input) /\ IsBinding(TypeDirective(input))
              /\ TypeDirective(input)[1] # "Type") =>
             IsDiagnosticOf(output, <<"Expected 'Type'">>)
        /\ ValidTypeDirective(input) =>
             /\ ~IsDiagnosticOf(output, <<"Missing 'associated' attribute">>)
             /\ ~IsDiagnosticOf(output, <<"Expected 'Type'">>)
             /\ IsImpl(output) =>
                  output[1].AssociatedType = DeclaredType(input)

\* an impl block has been returned for a declaration with `Type = &str`
\* followed by a second `associated` annotation with another key and type
C6_Witness ==
    /\ Returned
    /\ IsImpl(output)
    /\ Len(input.attrs) = 2
    /\ input.attrs[1] =
         [path |-> <<"associated">>, tokens |-> <<"Type", "=", "&", "str">>]
    /\ input.attrs[2] =
         [path |-> <<"associated">>, tokens |-> <<"type", "=", "u8">>]
    /\ output[1].AssociatedType = <<"&", "str">>

\* the result the claim gives the arm of variant v under the declared type ty
ExpectedResult(v, ty) ==
    IF Winning(v).path = <<"assoc">>
    THEN Winning(v).tokens
    ELSE <<"{", "const", "ASSOCIATED", ":">> \o ty \o <<"=">>
           \o Winning(v).tokens \o <<";", "&", "ASSOCIATED", "}">>

\* C7 (kind fidelity): in every impl block returned, the result of the arm
\* of a variant whose winning directive is `assoc` with expression E is
\* exactly E, and that of a variant whose winning directive is
\* `assoc_const` with expression E is the block
\* { const ASSOCIATED: T = E; &ASSOCIATED } with T the declared associated
\* type; which of the two depends on the directive's key alone, whatever the
\* variant's fields and whatever E.
C7_KindFidelity ==
    (Returned /\ IsImpl(output) /\ IsEnumInput(input)) =>
        \A i \in 1..Len(input.data.variants) :
            /\ i <= Len(Arms)
            /\ Arms[i].body =
                 ExpectedResult(input.data.variants[i], DeclaredType(input))

\* an impl block has been returned for a unit variant with `assoc_const`
\* and a variant with named fields and `assoc`
C7_Witness ==
    /\ Returned
    /\ IsImpl(output)
    /\ Len(input.data.variants) = 2
    /\ input.data.variants[1].fields = "Unit"
    /\ input.data.variants[1].attrs =
         <<[path |-> <<"assoc_const">>, tokens |-> <<"1">>]>>
    /\ input.data.variants[2].fields = "Named"
    /\ input.data.variants[2].attrs =
         <<[path |-> <<"assoc">>, tokens |-> <<"&", "X">>]>>

\* the pattern the claim gives a field shape, after the variant's path
ExpectedPattern(fields) ==
    IF fields = "Unit" THEN <<>>
    ELSE IF fields = "Unnamed" THEN <<"(", "..", ")">>
    ELSE <<"{", "..", "}">>

\* C8 (pattern selection): in every impl block returned, the arm of variant
\* i is the path of the enum and of variant i followed by nothing for a
\* variant without fields, by (..) for unnamed fields and by {..} for named
\* fields; and two variants with the same winning directive get the same
\* result, whatever their fields.
C8_PatternSelection ==
    (Returned /\ IsImpl(output) /\ IsEnumInput(input)) =>
        /\ \A i \in 1..Len(input.data.variants) :
             /\ i <= Len(Arms)
             /\ Arms[i].enum_ident = input.ident
             /\ Arms[i].variant_ident = input.data.variants[i].ident
             /\ Arms[i].pattern = ExpectedPattern(input.data.variants[i].fields)
        /\ \A i, j \in 1..Len(input.data.variants) :
             Winning(input.data.variants[i]) = Winning(input.data.variants[j])
               => Arms[i].body = Arms[j].body

\* an impl block has been returned for two variants with the same directive,
\* one with named and one with unnamed fields
C8_Witness ==
    /\ Returned
    /\ IsImpl(output)
    /\ Len(input.data.variants) = 2
    /\ input.data.variants[1].fields = "Named"
    /\ input.data.variants[2].fields = "Unnamed"
    /\ input.data.variants[1].attrs = input.data.variants[2].attrs
    /\ input.data.variants[1].attrs =
         <<[path |-> <<"assoc_const">>, tokens |-> <<"&", "X">>]>>

\* the stage of the pipeline the macro is in
Stage ==
    CASE pc = "parse_macro_input" -> "Parsing"
      [] pc \in {"find_associated", "parse_args", "match_data",
                 "parse_associated_values"} -> "Validating"
      [] pc = "generate_match_body" -> "Synthesizing"
      [] pc = "impl_block" -> "Assembling"
      [] pc = "returned" -> IF IsImpl(output) THEN "Emitted" ELSE "Failed"

\* the place of a stage in the order of the pipeline
Rank(stage) ==
    CASE stage = "Parsing" -> 1
      [] stage = "Validating" -> 2
      [] stage = "Synthesizing" -> 3
      [] stage = "Assembling" -> 4
      [] stage \in {"Emitted", "Failed"} -> 5

Terminal == Stage \in {"Emitted", "Failed"}

\* a step stays in its stage, moves to the next stage, or fails; no step
\* leaves a terminal stage
StageStep ==
    /\ ~Terminal
    /\ \/ Stage' = Stage
       \/ Stage' = "Failed"
       \/ Rank(Stage') = Rank(Stage) + 1

\* the place of a position of the function in the order of its text
PcOrder(p) ==
    CASE p = "parse_macro_input" -> 1
      [] p = "find_associated" -> 2
      [] p = "parse_args" -> 3
      [] p = "match_data" -> 4
      [] p = "parse_associated_values" -> 5
      [] p = "generate_match_body" -> 6
      [] p = "impl_block" -> 7
      [] p = "returned" -> 8

\* a step moves forward in the function, or on to the next variant
Progress ==
    \/ PcOrder(pc') > PcOrder(pc)
    \/ pc' = pc /\ idx' > idx

\* every variant has been validated
AllValidated ==
    /\ IsEnumInput(input)
    /\ Len(associated_values) = Len(input.data.variants)
    /\ \A i \in 1..Len(input.data.variants) : Resolves(input.data.variants[i])

\* C9 (pipeline state machine): every step of an invocation stays in its
\* stage, moves to the next of Parsing, Validating, Synthesizing,
\* Assembling, Emitted, or moves to Failed, so that no stage is revisited or
\* skipped; no step is taken from Emitted or Failed; every invocation ends
\* in Emitted or Failed (every step moves forward in the function or on to
\* the next variant, of which there are finitely many, and a step can be
\* taken wherever the stage is not terminal); and from Synthesizing on, so
\* when Emitted is reached, every variant has been validated.
C9_Pipeline ==
    /\ [][StageStep /\ Progress]_vars
    /\ [](Terminal \/ ENABLED Next)
    /\ [](input.parsed => idx <= Len(input.data.variants) + 1)
    /\ [](Rank(Stage) >= 3 /\ Stage # "Failed" => AllValidated)

\* an enum of two variants has gone through the pipeline and is emitted
C9_Witness ==
    /\ Stage = "Emitted"
    /\ Len(input.data.variants) = 2
    /\ AllValidated

\* the first variant of the declaration that does not resolve
FirstUnresolved(in) ==
    CHOOSE k \in 1..Len(in.data.variants) :
        /\ ~Resolves(in.data.variants[k])
        /\ \A j \in 1..(k - 1) : Resolves(in.data.variants[j])

\* C10 (diagnostic precedence): the token stream returned is decided by the
\* first of these that applies: (1) no `associated` annotation: the
\* missing-attribute diagnostic; (2) the first `associated` annotation has a
\* wrong key: "Expected 'Type'", or is no binding: the parser's diagnostic;
\* (3) the declaration is a struct or a union: the unsupported-kind
\* diagnostic; (4) the first variant, in declaration order, that has no
\* recognized directive (the missing-directive diagnostic naming it) or
\* whose winning directive is malformed (the parser's diagnostic); and an
\* impl block when none applies.  So a struct or union without a valid type
\* directive gets the type directive's diagnostic, and a variant without
\* directive is masked by an earlier variant with a malformed one.
C10_Precedence ==
    (Returned /\ input.parsed) =>
        IF ~HasTypeDirective(input)
        THEN IsDiagnosticOf(output, <<"Missing 'associated' attribute">>)
        ELSE IF ~ValidTypeDirective(input)
        THEN IF IsBinding(TypeDirective(input))
             THEN IsDiagnosticOf(output, <<"Expected 'Type'">>)
             ELSE IsParserDiagnostic(output)
        ELSE IF input.data.kind = "Struct"
        THEN IsDiagnosticOf(output, <<"Cannot derive 'Associated' for structs">>)
        ELSE IF input.data.kind = "Union"
        THEN IsDiagnosticOf(output, <<"Cannot derive 'Associated' for unions">>)
        ELSE IF ValidDeclaration(input)
        THEN IsImpl(output)
        ELSE LET v == input.data.variants[FirstUnresolved(input)]
             IN  IF HasDirective(v)
                 THEN IsParserDiagnostic(output)
                 ELSE IsDiagnosticOf(output,
                        <<"Cannot derive 'Associated' for '", input.ident,
                          "': Missing 'assoc' or 'assoc_const' attribute on variant '",
                          v.ident, "'">>)

\* the parser's diagnostic has been returned for an enum whose first variant
\* has a malformed directive and whose second variant has none
C10_Witness ==
    /\ Returned
    /\ IsEnumInput(input)
    /\ ValidTypeDirective(input)
    /\ Len(input.data.variants) = 2
    /\ HasDirective(input.data.variants[1])
    /\ ~Resolves(input.data.variants[1])
    /\ ~HasDirective(input.data.variants[2])
    /\ IsParserDiagnostic(output)

====
